---- MODULE Spec2Model ----
(***************************************************************************)
(* Model of the podcastfy HTTP facade (src/podcastfy/api/fast_app.py) and  *)
(* of its two storage adapters (src/podcastfy/storage).                    *)
(*                                                                         *)
(* Specification Spec is the request pipeline: the auth middleware, the    *)
(* /generate handler step by step, the audio post-processing and the      *)
(* /health probe, over a shared temp directory.  The generation library,   *)
(* the codec, the S3 bucket and the Supabase table are not part of the     *)
(* repository: each call into them is a nondeterministic outcome.          *)
(*                                                                         *)
(* Specification SpecMerge is merge_configs over a small heap of Python    *)
(* dict objects, so that aliasing between the copy and the base is         *)
(* visible.                                                                *)
(***************************************************************************)
EXTENDS Integers, Sequences, FiniteSets, TLC

\* ------------------------------------------------------------------ bounds

\* Request slots (requests the server has accepted and not yet closed).
NumReq == 2
\* Names available in the temp directory besides health_check.txt.
MaxFiles == 2
\* Entries of a request's text array.
MaxTextLen == 1

Reqs == 1..NumReq
FileNames == 1..MaxFiles

\* ------------------------------------------------------------ Python values

\* Optional[str]: None is <<>>, the string s is <<s>>.
None == <<>>
Some(s) == <<s>>
\* Python truthiness of an Optional[str]: None and "" are falsy.
Truthy(o) == o # None /\ o[1] # ""

\* Text is kept as a sequence of characters so that join and emptiness are
\* computed; "" is <<>>.
Chars == {"a", "b"}

VARIABLES
    \* environment and process-wide singletons
    apiToken,       \* os.getenv("PODPOD_API_ACCESS_TOKEN"), Optional[str]
    introExists,    \* os.path.exists(intro.wav)
    s3Client,       \* s3_storage.client is not None
    supaClient,     \* supabase_client.client is not None
    fs,             \* the temp files: name -> [ext, data, ms]
    \* one request per slot
    pc,             \* position of the request
    req,            \* the parsed request: path, token, podcast_id, text
    text_input,     \* local text_input
    result,         \* local result of generate_podcast
    audio_with_intro, \* local audio_with_intro (a file name), 0 before it is set
    metadata,       \* local metadata
    audio_url,      \* local audio_url
    error_message,  \* str(e) of the exception caught at line 254
    resp,           \* the HTTP response
    log,            \* the calls the request made, in order
    \* merge_configs
    heap,           \* Python dict objects: address -> mapping
    mbase,          \* address of base_config
    muser,          \* address of user_config of the last call
    mres,           \* address returned by the last call
    base0,          \* base_config as it was before any call (a deep snapshot)
    user0           \* user_config as it was passed to the last call

envVars == <<apiToken, introExists, s3Client, supaClient>>
reqVars == <<pc, req, text_input, result, audio_with_intro, metadata,
             audio_url, error_message, resp, log>>
mergeVars == <<heap, mbase, muser, mres, base0, user0>>
vars == <<envVars, fs, reqVars, mergeVars>>

\* ---------------------------------------------------------------- requests

PodcastIds == {None, Some(""), Some("p1"), Some("p2")}
Tokens == {None, Some(""), Some("bad"), Some("secret")}
ApiTokens == {None, Some("secret")}

\* A str of at most one character.
Strs == {<<>>} \cup {<<c>> : c \in Chars}
StrLists == UNION {[1..n -> Strs] : n \in 0..MaxTextLen}

\* data['text']: missing, a str, a list of str, or any other JSON value.
TextValues ==
    {[kind |-> "absent", items |-> <<>>], [kind |-> "other", items |-> <<>>]}
    \cup {[kind |-> "str", items |-> <<s>>] : s \in Strs}
    \cup {[kind |-> "list", items |-> l] : l \in StrLists}

NoText == [kind |-> "absent", items |-> <<>>]

\* POST /generate carries a JSON body; GET /health and other paths carry none.
Requests ==
    [path : {"/generate"}, token : Tokens, podcast_id : PodcastIds, text : TextValues]
    \cup [path : {"/health", "/other"}, token : Tokens,
          podcast_id : {None}, text : {NoText}]

NoReq == [path |-> "", token |-> None, podcast_id |-> None, text |-> NoText]

\* ------------------------------------------------------------------- files

\* A path that names no file.
NoFile == 0
\* TEMP_DIR/health_check.txt
HealthFile == MaxFiles + 1

\* What the generation library can write: extension, bytes, duration in ms.
Artifacts ==
    {[ext |-> ".mp3", data |-> <<1>>, ms |-> 1500],
     [ext |-> ".wav", data |-> <<1, 2>>, ms |-> 999]}

\* intro.wav as decoded by pydub.
Intro == [data |-> <<0>>, ms |-> 700]

HasFresh(fsys) == FileNames \ DOMAIN fsys # {}
\* A name that is not in use (tempfile and the generator pick unused names).
Fresh(fsys) ==
    CHOOSE n \in FileNames \ DOMAIN fsys : \A m \in FileNames \ DOMAIN fsys : n <= m

Create(fsys, name, file) == (name :> file) @@ fsys
Remove(fsys, name) == [n \in DOMAIN fsys \ {name} |-> fsys[n]]

\* ---------------------------------------------------------------- responses

NoUrl == [id |-> "", name |-> NoFile]
NoMeta == [audio_length |-> "-", audio_file_size |-> "-", audio_content_type |-> "-"]
NoResult == [shape |-> "unset", path |-> NoFile]
NoResp == [status |-> 0, kind |-> "none", ctype |-> "", detail |-> "",
           url |-> NoUrl, data |-> <<>>, clen |-> ""]

JSONResponse(status, kind, detail, url) ==
    [status |-> status, kind |-> kind, ctype |-> "application/json",
     detail |-> detail, url |-> url, data |-> <<>>, clen |-> ""]

\* The HTTPException of lines 272 and 320.
ErrorResponse(detail) == JSONResponse(500, "detail", detail, NoUrl)

\* An entry of a request's call log.
Ev(op, arg, out) == [op |-> op, arg |-> arg, out |-> out]

\* ------------------------------------------------------ auth (lines 64-76)

\* Mutant: the comparison without the test for a missing or empty header.
verify_token_NoEmptyCheck(path, token, secret) ==
    IF path = "/health" THEN "pass"
    ELSE IF token # secret THEN "401"
    ELSE "pass"

\* The middleware's decision: "pass" to call_next, or "401".
verify_token(path, token, secret) ==
    IF path = "/health" THEN "pass"
    ELSE IF ~Truthy(token) \/ token # secret THEN "401"
    ELSE "pass"

Unauthorized == JSONResponse(401, "message", "Invalid or missing access token", NoUrl)

\* ---------------------------------------------- text input (lines 101-112)

Separator == <<"\n", "\n", "-", "-", "-", "-", "-", "-", "-", "-", "-", "\n", "\n">>

\* Mutant: the comprehension without its "if text".
RECURSIVE NonEmpty_KeepsAll(_)
NonEmpty_KeepsAll(items) ==
    IF items = <<>> THEN <<>>
    ELSE <<Head(items)>> \o NonEmpty_KeepsAll(Tail(items))

\* [str(text) for text in text_data if text]
RECURSIVE NonEmpty(_)
NonEmpty(items) ==
    IF items = <<>> THEN <<>>
    ELSE IF Head(items) # <<>> THEN <<Head(items)>> \o NonEmpty(Tail(items))
    ELSE NonEmpty(Tail(items))

\* sep.join(parts)
RECURSIVE Join(_, _)
Join(sep, parts) ==
    IF parts = <<>> THEN <<>>
    ELSE IF Len(parts) = 1 THEN parts[1]
    ELSE parts[1] \o sep \o Join(sep, Tail(parts))

\* Lines 102-112: [raised, value]; value is the Optional text_input.
TextInput(text) ==
    CASE text.kind = "absent" -> [raised |-> FALSE, value |-> None]
      [] text.kind = "list" ->
            [raised |-> FALSE, value |-> Some(Join(Separator, NonEmpty(text.items)))]
      [] text.kind = "str" -> [raised |-> FALSE, value |-> Some(text.items[1])]
      [] OTHER -> [raised |-> TRUE, value |-> None]

TextError == "Text input must be a string or array of strings"

\* --------------------------------------- getAudioMetadata (lines 322-371)

Extensions == {".mp3", ".wav", ".m4a", ".aac", ".ogg"}
content_type_map ==
    [e \in Extensions |->
        CASE e = ".mp3" -> "audio/mpeg"
          [] e = ".wav" -> "audio/wav"
          [] e = ".m4a" -> "audio/mp4"
          [] e = ".aac" -> "audio/aac"
          [] e = ".ogg" -> "audio/ogg"]

EmptyMeta ==
    [audio_length |-> "", audio_file_size |-> "", audio_content_type |-> "audio/mpeg"]

\* decodes is the codec's outcome on an existing file; a missing file never
\* decodes.  Any exception gives the empty metadata.
getAudioMetadata(fsys, path, decodes) ==
    IF path \notin DOMAIN fsys \/ ~decodes THEN EmptyMeta
    ELSE [audio_length |-> ToString(fsys[path].ms \div 1000),
          audio_file_size |-> ToString(Len(fsys[path].data)),
          audio_content_type |->
              IF fsys[path].ext \in Extensions THEN content_type_map[fsys[path].ext]
              ELSE "audio/mpeg"]

\* ---------------------------------------- addIntroToAudio (lines 373-417)

\* What can happen inside the try block, in the order of its statements.
IntroOutcomes == {"decode_fails", "tempfile_fails", "export_fails", "ok"}

Combined(file) ==
    [ext |-> ".mp3", data |-> Intro.data \o file.data, ms |-> Intro.ms + file.ms]

\* Mutant: without intro.wav the input is still re-encoded into a temp file.
addIntroToAudio_ReencodesWithoutIntro(fsys, path, intro, outcome) ==
    LET temp_path == Fresh(fsys)
        original(caught) ==
            [path |-> path, fs |-> fsys, made |-> <<>>, removed |-> <<>>,
             caught |-> caught]
    IN  IF path \notin DOMAIN fsys \/ outcome = "decode_fails" THEN original(intro)
        ELSE IF ~HasFresh(fsys) \/ outcome = "tempfile_fails" THEN original(intro)
        ELSE IF outcome = "export_fails"
             THEN [path |-> path,
                   fs |-> Create(fsys, temp_path, [ext |-> ".mp3", data |-> <<>>, ms |-> 0]),
                   made |-> <<temp_path>>, removed |-> <<>>, caught |-> intro]
        ELSE [path |-> temp_path,
              fs |-> Remove(Create(fsys, temp_path,
                                   IF intro THEN Combined(fsys[path])
                                   ELSE [fsys[path] EXCEPT !.ext = ".mp3"]), path),
              made |-> <<temp_path>>, removed |-> <<path>>, caught |-> FALSE]

\* Mutant: after a failed export the function returns the file it was writing.
addIntroToAudio_ReturnsPartial(fsys, path, intro, outcome) ==
    LET temp_path == Fresh(fsys)
        original(caught) ==
            [path |-> path, fs |-> fsys, made |-> <<>>, removed |-> <<>>,
             caught |-> caught]
    IN  IF ~intro THEN original(FALSE)
        ELSE IF path \notin DOMAIN fsys \/ outcome = "decode_fails" THEN original(TRUE)
        ELSE IF ~HasFresh(fsys) \/ outcome = "tempfile_fails" THEN original(TRUE)
        ELSE IF outcome = "export_fails"
             THEN [path |-> temp_path,
                   fs |-> Create(fsys, temp_path, [ext |-> ".mp3", data |-> <<>>, ms |-> 0]),
                   made |-> <<temp_path>>, removed |-> <<>>, caught |-> TRUE]
        ELSE [path |-> temp_path,
              fs |-> Remove(Create(fsys, temp_path, Combined(fsys[path])), path),
              made |-> <<temp_path>>, removed |-> <<path>>, caught |-> FALSE]

\* [path, fs, made, removed, caught]: the returned path, the files afterwards,
\* the names created, the names removed, and whether the except clause of
\* line 415 ran.
addIntroToAudio(fsys, path, intro, outcome) ==
    LET temp_path == Fresh(fsys)
        original(caught) ==
            [path |-> path, fs |-> fsys, made |-> <<>>, removed |-> <<>>,
             caught |-> caught]
    IN  IF ~intro THEN original(FALSE)                              \* lines 388-390
        ELSE IF path \notin DOMAIN fsys \/ outcome = "decode_fails"  \* lines 394-395
             THEN original(TRUE)
        ELSE IF ~HasFresh(fsys) \/ outcome = "tempfile_fails"        \* line 401
             THEN original(TRUE)
        ELSE IF outcome = "export_fails"                             \* line 405
             THEN \* NamedTemporaryFile(delete=False) has created the empty file
                  [path |-> path,
                   fs |-> Create(fsys, temp_path, [ext |-> ".mp3", data |-> <<>>, ms |-> 0]),
                   made |-> <<temp_path>>, removed |-> <<>>, caught |-> TRUE]
        ELSE [path |-> temp_path,                                    \* lines 410-413
              fs |-> Remove(Create(fsys, temp_path, Combined(fsys[path])), path),
              made |-> <<temp_path>>, removed |-> <<path>>, caught |-> FALSE]

\* ------------------------------ S3Storage.upload_file (ovh_storage 79-112)

S3NotInitialized == "S3 client not initialized. Missing environment variables: ..."
S3UploadFailed == "Failed to upload to S3: ..."

ObjectUrl(audio_id, path) == [id |-> audio_id, name |-> path]

\* sent is whether upload_fileobj went through.  [raised, msg, url].
upload_file(client, fsys, path, audio_id, sent) ==
    IF ~client THEN [raised |-> TRUE, msg |-> S3NotInitialized, url |-> NoUrl]
    ELSE IF path \notin DOMAIN fsys \/ ~sent
         THEN [raised |-> TRUE, msg |-> S3UploadFailed, url |-> NoUrl]
    ELSE [raised |-> FALSE, msg |-> "", url |-> ObjectUrl(audio_id, path)]

\* ------------------------------- SupabaseClient (supabase_client 60-172)

\* What the table update does: it throws, or it matches rows or none.
StoreOutcomes == {"throws", "rows", "no_rows"}

\* The value of the call: "raised", "True" or "False".
update_podcast_completion(client, outcome) ==
    IF ~client THEN "raised"
    ELSE IF outcome = "throws" THEN "raised"
    ELSE IF outcome = "rows" THEN "True" ELSE "False"

update_podcast_status(client, outcome) ==
    IF ~client THEN "raised"
    ELSE IF outcome = "throws" THEN "raised"
    ELSE IF outcome = "rows" THEN "True" ELSE "False"

\* ------------------------------------------- merge_configs (lines 34-48)

\* Python values held in a config dict: None, a scalar, or a reference to
\* another dict object.  v is the scalar or the address.
PyNone == [t |-> "none", v |-> ""]
Scalar(x) == [t |-> "val", v |-> x]
Ref(a) == [t |-> "ref", v |-> a]

TTS == "text_to_speech"
TopKeys == {"podcast_name"}
TtsKeys == {"default_tts_model", "model"}
Scalars == {"x", "y"}
Values == {PyNone} \cup {Scalar(x) : x \in Scalars}

\* A dict with some of the keys, every value None or a scalar.
Dicts(keys) == UNION {[ks -> Values] : ks \in SUBSET keys}

\* A configuration document by value: its top-level entries other than the
\* text_to_speech one, and the text_to_speech sub-document (<<>> if the key
\* is missing, <<d>> if it holds the dict d).
Docs == [top : Dicts(TopKeys), tts : {<<>>} \cup {<<d>> : d \in Dicts(TtsKeys)}]
NoDoc == [top |-> <<>>, tts |-> <<>>]

\* The objects of a document placed on the heap at address a (and a.tts).
TtsAddr(a) == a \o ".tts"
Alloc(h, a, doc) ==
    IF doc.tts = <<>> THEN (a :> doc.top) @@ h
    ELSE (a :> ((TTS :> Ref(TtsAddr(a))) @@ doc.top)) @@ (TtsAddr(a) :> doc.tts[1]) @@ h

\* The document reachable from address a, by value.
Deep(h, a) ==
    [top |-> [k \in DOMAIN h[a] \ {TTS} |-> h[a][k]],
     tts |-> IF TTS \in DOMAIN h[a] THEN <<h[h[a][TTS].v]>> ELSE <<>>]

\* d.update(e)
Update(d, e) == [k \in DOMAIN d \cup DOMAIN e |-> IF k \in DOMAIN e THEN e[k] ELSE d[k]]

\* Mutant: line 45's test for None left out.
merge_configs_NoneOverrides(h, b, u, m) ==
    LET copied == (m :> h[b]) @@ h
        nested == TTS \in DOMAIN copied[m] /\ TTS \in DOMAIN h[u]
        target == copied[m][TTS].v
        updated ==
            IF nested
            THEN [copied EXCEPT ![target] = Update(@, copied[h[u][TTS].v])]
            ELSE copied
        set == {k \in DOMAIN h[u] : k # TTS}
    IN  [updated EXCEPT ![m] =
            [k \in DOMAIN @ \cup set |-> IF k \in set THEN h[u][k] ELSE @[k]]]

\* The heap after merge_configs(base_config, user_config) with the objects
\* at b and u; the returned dict is the new object at m.
merge_configs(h, b, u, m) ==
    LET copied == (m :> h[b]) @@ h                                  \* line 36
        nested == TTS \in DOMAIN copied[m] /\ TTS \in DOMAIN h[u]    \* line 39
        target == copied[m][TTS].v
        updated ==                                                   \* line 40
            IF nested
            THEN [copied EXCEPT ![target] = Update(@, copied[h[u][TTS].v])]
            ELSE copied
        set == {k \in DOMAIN h[u] : k # TTS /\ h[u][k] # PyNone}     \* lines 43-45
    IN  [updated EXCEPT ![m] =                                       \* line 46
            [k \in DOMAIN @ \cup set |-> IF k \in set THEN h[u][k] ELSE @[k]]]

\* check_connection of both adapters (ovh_storage 63-77, supabase_client 47-58)
ProbeOutcomes == {"connected", "error"}
check_connection(client, outcome) == IF ~client THEN "not_configured" ELSE outcome

\* ------------------------------------------------------------ initial state

ReqInit ==
    /\ pc = [r \in Reqs |-> "idle"]
    /\ req = [r \in Reqs |-> NoReq]
    /\ text_input = [r \in Reqs |-> None]
    /\ result = [r \in Reqs |-> NoResult]
    /\ audio_with_intro = [r \in Reqs |-> NoFile]
    /\ metadata = [r \in Reqs |-> NoMeta]
    /\ audio_url = [r \in Reqs |-> NoUrl]
    /\ error_message = [r \in Reqs |-> ""]
    /\ resp = [r \in Reqs |-> NoResp]
    /\ log = [r \in Reqs |-> <<>>]

EnvInit ==
    /\ apiToken \in ApiTokens
    /\ introExists \in BOOLEAN
    /\ s3Client \in BOOLEAN
    /\ supaClient \in BOOLEAN
    /\ fs = <<>>

Append1(r, e) == [log EXCEPT ![r] = Append(@, e)]
AppendAll(r, es) == [log EXCEPT ![r] = @ \o es]

\* The exception e caught at line 254 is handled by Except; str(e) is kept in
\* error_message from the moment e is raised.
Raise(r, msg) ==
    /\ pc' = [pc EXCEPT ![r] = "except"]
    /\ error_message' = [error_message EXCEPT ![r] = msg]

\* One handler runs at a time: generate_podcast_endpoint and healthcheck are
\* coroutines that never await, so the event loop runs each to its return.
Serial(r) == \A q \in Reqs \ {r} : pc[q] = "idle"

\* ------------------------------------------------------------------ actions

\* A request arrives on a free slot.
Receive(r) ==
    /\ pc[r] = "idle"
    /\ Serial(r)
    /\ \E q \in Requests : req' = [req EXCEPT ![r] = q]
    /\ pc' = [pc EXCEPT ![r] = "auth"]
    /\ UNCHANGED <<envVars, fs, text_input, result, audio_with_intro, metadata,
                   audio_url, error_message, resp, log, mergeVars>>

\* Lines 64-76: the middleware and the routing of call_next.
VerifyToken(r) ==
    /\ pc[r] = "auth"
    /\ IF verify_token(req[r].path, req[r].token, apiToken) = "401"
       THEN /\ resp' = [resp EXCEPT ![r] = Unauthorized]
            /\ pc' = [pc EXCEPT ![r] = "done"]
       ELSE IF req[r].path = "/generate"
            THEN /\ pc' = [pc EXCEPT ![r] = "handler"]
                 /\ UNCHANGED resp
       ELSE IF req[r].path = "/health"
            THEN /\ pc' = [pc EXCEPT ![r] = "health"]
                 /\ UNCHANGED resp
       ELSE /\ resp' = [resp EXCEPT ![r] = JSONResponse(404, "detail", "Not Found", NoUrl)]
            /\ pc' = [pc EXCEPT ![r] = "done"]
    /\ UNCHANGED <<envVars, fs, req, text_input, result, audio_with_intro, metadata,
                   audio_url, error_message, log, mergeVars>>

\* Mutant: the text is validated before the try block is entered, so its
\* ValueError is answered 500 without passing through the except clause.
ResolveInput_OutsideTry(r) ==
    /\ pc[r] = "handler"
    /\ LET t == TextInput(req[r].text)
       IN  IF t.raised
           THEN /\ resp' = [resp EXCEPT ![r] = ErrorResponse(TextError)]
                /\ pc' = [pc EXCEPT ![r] = "done"]
                /\ UNCHANGED <<text_input, error_message>>
           ELSE /\ text_input' = [text_input EXCEPT ![r] = t.value]
                /\ pc' = [pc EXCEPT ![r] = "generate"]
                /\ UNCHANGED <<error_message, resp>>
    /\ UNCHANGED <<envVars, fs, req, result, audio_with_intro, metadata,
                   audio_url, log, mergeVars>>

\* Lines 86-151: configuration and input; the text is what can raise.
ResolveInput(r) ==
    /\ pc[r] = "handler"
    /\ LET t == TextInput(req[r].text)
       IN  IF t.raised
           THEN /\ Raise(r, TextError)
                /\ UNCHANGED text_input
           ELSE /\ text_input' = [text_input EXCEPT ![r] = t.value]
                /\ pc' = [pc EXCEPT ![r] = "generate"]
                /\ UNCHANGED error_message
    /\ UNCHANGED <<envVars, fs, req, result, audio_with_intro, metadata,
                   audio_url, resp, log, mergeVars>>

GenerationError == "generation failed"

\* Lines 154-160: the call into the generation library.  It raises, or
\* returns a path or an object with audio_path (of a file it wrote, or of
\* no file), or returns something else.
Generate(r) ==
    /\ pc[r] = "generate"
    /\ \/ /\ Raise(r, GenerationError)
          /\ log' = Append1(r, Ev("generate_podcast", text_input[r],
                                   [raised |-> TRUE, path |-> NoFile, data |-> <<>>]))
          /\ UNCHANGED <<fs, result>>
       \/ /\ HasFresh(fs)
          /\ \E a \in Artifacts, shape \in {"str", "obj"} :
                /\ fs' = Create(fs, Fresh(fs), a)
                /\ result' = [result EXCEPT ![r] = [shape |-> shape, path |-> Fresh(fs)]]
                /\ log' = AppendAll(r,
                      <<Ev("generate_podcast", text_input[r],
                           [raised |-> FALSE, path |-> Fresh(fs), data |-> a.data]),
                        Ev("create", Fresh(fs), "generate_podcast")>>)
          /\ pc' = [pc EXCEPT ![r] = "dispose"]
          /\ UNCHANGED error_message
       \/ /\ \E shape \in {"str", "obj", "other"} :
                result' = [result EXCEPT ![r] = [shape |-> shape, path |-> NoFile]]
          /\ log' = Append1(r, Ev("generate_podcast", text_input[r],
                                   [raised |-> FALSE, path |-> NoFile, data |-> <<>>]))
          /\ pc' = [pc EXCEPT ![r] = "dispose"]
          /\ UNCHANGED <<fs, error_message>>
    /\ UNCHANGED <<envVars, req, text_input, audio_with_intro, metadata,
                   audio_url, resp, mergeVars>>

\* str(HTTPException(500, "Invalid result format")): Starlette gives the
\* exception a __str__ only in its later versions.
InvalidResultMessages == {"500: Invalid result format", ""}

\* Mutant: the key's presence instead of its truthiness.
HasPodcastId_KeyPresent(q) == q.podcast_id # None

\* data.get('podcast_id') as a condition (lines 164, 208, 260).
HasPodcastId(q) == Truthy(q.podcast_id)

\* Lines 163-164, 207-208, 251-252: the branch on the result and podcast_id.
Dispose(r) ==
    /\ pc[r] = "dispose"
    /\ LET isfile == result[r].shape = "str" /\ result[r].path \in DOMAIN fs
           hasattr == result[r].shape = "obj"
       IN  IF isfile \/ hasattr
           THEN /\ pc' = [pc EXCEPT ![r] =
                            IF HasPodcastId(req[r]) THEN "intro" ELSE "raw"]
                /\ UNCHANGED error_message
           ELSE \E m \in InvalidResultMessages : Raise(r, m)
    /\ UNCHANGED <<envVars, fs, req, text_input, result, audio_with_intro, metadata,
                   audio_url, resp, log, mergeVars>>

RECURSIVE Events(_, _, _)
\* One log entry per name.
Events(op, names, by) ==
    IF names = <<>> THEN <<>>
    ELSE <<Ev(op, Head(names), by)>> \o Events(op, Tail(names), by)

\* Lines 166 and 210: audio_with_intro = addIntroToAudio(path of the result).
AddIntro(r) ==
    /\ pc[r] = "intro"
    /\ \E outcome \in IntroOutcomes :
          LET a == addIntroToAudio(fs, result[r].path, introExists, outcome)
          IN  /\ fs' = a.fs
              /\ audio_with_intro' = [audio_with_intro EXCEPT ![r] = a.path]
              /\ log' = AppendAll(r,
                    <<Ev("addIntroToAudio", result[r].path,
                         [path |-> a.path, caught |-> a.caught,
                          intact |-> result[r].path \in DOMAIN fs =>
                                        /\ result[r].path \in DOMAIN a.fs
                                        /\ a.fs[result[r].path] = fs[result[r].path]])>>
                    \o Events("create", a.made, "addIntroToAudio")
                    \o Events("remove", a.removed, "addIntroToAudio"))
    /\ pc' = [pc EXCEPT ![r] = "metadata"]
    /\ UNCHANGED <<envVars, req, text_input, result, metadata, audio_url,
                   error_message, resp, mergeVars>>

\* Mutant: the metadata is read from the generator's file, not from the file
\* addIntroToAudio returned.
GetMetadata_OfResult(r) ==
    /\ pc[r] = "metadata"
    /\ \E decodes \in BOOLEAN :
          LET m == getAudioMetadata(fs, result[r].path, decodes)
          IN  /\ metadata' = [metadata EXCEPT ![r] = m]
              /\ log' = Append1(r, Ev("getAudioMetadata",
                                       [path |-> result[r].path,
                                        failed |-> result[r].path \notin DOMAIN fs
                                                   \/ ~decodes],
                                       m))
    /\ pc' = [pc EXCEPT ![r] = "upload"]
    /\ UNCHANGED <<envVars, fs, req, text_input, result, audio_with_intro, audio_url,
                   error_message, resp, mergeVars>>

\* Lines 169 and 213: metadata = getAudioMetadata(audio_with_intro).
GetMetadata(r) ==
    /\ pc[r] = "metadata"
    /\ \E decodes \in BOOLEAN :
          LET m == getAudioMetadata(fs, audio_with_intro[r], decodes)
          IN  /\ metadata' = [metadata EXCEPT ![r] = m]
              /\ log' = Append1(r, Ev("getAudioMetadata",
                                       [path |-> audio_with_intro[r],
                                        failed |-> audio_with_intro[r] \notin DOMAIN fs
                                                   \/ ~decodes],
                                       m))
    /\ pc' = [pc EXCEPT ![r] = "upload"]
    /\ UNCHANGED <<envVars, fs, req, text_input, result, audio_with_intro, audio_url,
                   error_message, resp, mergeVars>>

\* Mutant: an upload failure is logged and the handler goes on.
Upload_Swallows(r) ==
    /\ pc[r] = "upload"
    /\ \E sent \in BOOLEAN :
          LET u == upload_file(s3Client, fs, audio_with_intro[r], req[r].podcast_id[1], sent)
              call == [file_path |-> audio_with_intro[r], audio_id |-> req[r].podcast_id[1]]
          IN  /\ audio_url' = [audio_url EXCEPT ![r] = u.url]
              /\ log' = Append1(r, Ev("upload_file", call,
                                      [raised |-> u.raised, url |-> u.url]))
    /\ pc' = [pc EXCEPT ![r] = "completion"]
    /\ UNCHANGED <<envVars, fs, req, text_input, result, audio_with_intro, metadata,
                   error_message, resp, mergeVars>>

\* Lines 172 and 216: audio_url = s3_storage.upload_file(audio_with_intro, id).
Upload(r) ==
    /\ pc[r] = "upload"
    /\ \E sent \in BOOLEAN :
          LET u == upload_file(s3Client, fs, audio_with_intro[r], req[r].podcast_id[1], sent)
              call == [file_path |-> audio_with_intro[r], audio_id |-> req[r].podcast_id[1]]
          IN  IF u.raised
              THEN /\ Raise(r, u.msg)
                   /\ log' = Append1(r, Ev("upload_file", call, [raised |-> TRUE, url |-> NoUrl]))
                   /\ UNCHANGED audio_url
              ELSE /\ audio_url' = [audio_url EXCEPT ![r] = u.url]
                   /\ log' = Append1(r, Ev("upload_file", call, [raised |-> FALSE, url |-> u.url]))
                   /\ pc' = [pc EXCEPT ![r] = "completion"]
                   /\ UNCHANGED error_message
    /\ UNCHANGED <<envVars, fs, req, text_input, result, audio_with_intro, metadata,
                   resp, mergeVars>>

\* Mutant: the completion update without its try/except.
UpdateCompletion_Propagates(r) ==
    /\ pc[r] = "completion"
    /\ \E outcome \in StoreOutcomes :
          LET v == update_podcast_completion(supaClient, outcome)
          IN  /\ log' = Append1(r, Ev("update_podcast_completion",
                        [podcast_id |-> req[r].podcast_id[1],
                         audio_url |-> audio_url[r],
                         audio_length |-> metadata[r].audio_length,
                         audio_content_type |-> metadata[r].audio_content_type,
                         audio_file_size |-> metadata[r].audio_file_size], v))
              /\ IF v = "raised"
                 THEN Raise(r, "Failed to update podcast in Supabase: ...")
                 ELSE /\ pc' = [pc EXCEPT ![r] = "cleanup"]
                      /\ UNCHANGED error_message
    /\ UNCHANGED <<envVars, fs, req, text_input, result, audio_with_intro, metadata,
                   audio_url, resp, mergeVars>>

\* Lines 175-186 and 219-230: the completion update inside its own try.
UpdateCompletion(r) ==
    /\ pc[r] = "completion"
    /\ \E outcome \in StoreOutcomes :
          log' = Append1(r, Ev("update_podcast_completion",
                    [podcast_id |-> req[r].podcast_id[1],
                     audio_url |-> audio_url[r],
                     audio_length |-> metadata[r].audio_length,
                     audio_content_type |-> metadata[r].audio_content_type,
                     audio_file_size |-> metadata[r].audio_file_size],
                    update_podcast_completion(supaClient, outcome)))
    /\ pc' = [pc EXCEPT ![r] = "cleanup"]
    /\ UNCHANGED <<envVars, fs, req, text_input, result, audio_with_intro, metadata,
                   audio_url, error_message, resp, mergeVars>>

FileNotFound == "[Errno 2] No such file or directory"

\* Lines 188-191 and 232-235: os.remove(audio_with_intro), then the response.
Cleanup(r) ==
    /\ pc[r] = "cleanup"
    /\ IF audio_with_intro[r] \in DOMAIN fs
       THEN /\ fs' = Remove(fs, audio_with_intro[r])
            /\ log' = Append1(r, Ev("remove", audio_with_intro[r], "handler"))
            /\ resp' = [resp EXCEPT ![r] = JSONResponse(200, "audio_url", "", audio_url[r])]
            /\ pc' = [pc EXCEPT ![r] = "done"]
            /\ UNCHANGED error_message
       ELSE /\ Raise(r, FileNotFound)
            /\ UNCHANGED <<fs, log, resp>>
    /\ UNCHANGED <<envVars, req, text_input, result, audio_with_intro, metadata,
                   audio_url, mergeVars>>

\* The Response of lines 199-206 and 243-250.
AudioResponse(audio_data) ==
    [status |-> 200, kind |-> "bytes", ctype |-> "audio/mpeg", detail |-> "",
     url |-> NoUrl, data |-> audio_data, clen |-> ToString(Len(audio_data))]

\* Lines 194-206 and 238-250: read the file, remove it, answer its bytes.
ReturnRaw(r) ==
    /\ pc[r] = "raw"
    /\ IF result[r].path \in DOMAIN fs
       THEN /\ fs' = Remove(fs, result[r].path)
            /\ log' = AppendAll(r, <<Ev("read", result[r].path, fs[result[r].path].data),
                                     Ev("remove", result[r].path, "handler")>>)
            /\ resp' = [resp EXCEPT ![r] = AudioResponse(fs[result[r].path].data)]
            /\ pc' = [pc EXCEPT ![r] = "done"]
            /\ UNCHANGED error_message
       ELSE /\ Raise(r, FileNotFound)
            /\ UNCHANGED <<fs, log, resp>>
    /\ UNCHANGED <<envVars, req, text_input, result, audio_with_intro, metadata,
                   audio_url, mergeVars>>

\* Mutant: the failure report without its try/except.
Except_ReportPropagates(r) ==
    /\ pc[r] = "except"
    /\ IF HasPodcastId(req[r])
       THEN \E outcome \in StoreOutcomes :
               LET v == update_podcast_status(supaClient, outcome)
               IN  /\ log' = Append1(r, Ev("update_podcast_status",
                             [podcast_id |-> req[r].podcast_id[1], status |-> "failed",
                              failed_reason |-> error_message[r]], v))
                   /\ resp' = [resp EXCEPT ![r] =
                        IF v = "raised"
                        THEN ErrorResponse("Failed to update podcast status in Supabase: ...")
                        ELSE ErrorResponse(error_message[r])]
       ELSE /\ UNCHANGED log
            /\ resp' = [resp EXCEPT ![r] = ErrorResponse(error_message[r])]
    /\ pc' = [pc EXCEPT ![r] = "done"]
    /\ UNCHANGED <<envVars, fs, req, text_input, result, audio_with_intro, metadata,
                   audio_url, error_message, mergeVars>>

\* Lines 254-272: report the failure if there is a podcast_id, then answer 500.
Except(r) ==
    /\ pc[r] = "except"
    /\ IF HasPodcastId(req[r])
       THEN \E outcome \in StoreOutcomes :
               log' = Append1(r, Ev("update_podcast_status",
                         [podcast_id |-> req[r].podcast_id[1], status |-> "failed",
                          failed_reason |-> error_message[r]],
                         update_podcast_status(supaClient, outcome)))
       ELSE UNCHANGED log
    /\ resp' = [resp EXCEPT ![r] = ErrorResponse(error_message[r])]
    /\ pc' = [pc EXCEPT ![r] = "done"]
    /\ UNCHANGED <<envVars, fs, req, text_input, result, audio_with_intro, metadata,
                   audio_url, error_message, mergeVars>>

\* Lines 283-285: write TEMP_DIR/health_check.txt.
HealthWrite(r) ==
    /\ pc[r] = "health"
    /\ fs' = Create(Remove(fs, HealthFile), HealthFile,
                    [ext |-> ".txt", data |-> <<>>, ms |-> 0])
    /\ log' = Append1(r, Ev("create", HealthFile, "healthcheck"))
    /\ pc' = [pc EXCEPT ![r] = "health_remove"]
    /\ UNCHANGED <<envVars, req, text_input, result, audio_with_intro, metadata,
                   audio_url, error_message, resp, mergeVars>>

\* Line 286, and lines 318-320 when it raises.
HealthRemove(r) ==
    /\ pc[r] = "health_remove"
    /\ IF HealthFile \in DOMAIN fs
       THEN /\ fs' = Remove(fs, HealthFile)
            /\ log' = Append1(r, Ev("remove", HealthFile, "healthcheck"))
            /\ pc' = [pc EXCEPT ![r] = "health_probe"]
            /\ UNCHANGED resp
       ELSE /\ resp' = [resp EXCEPT ![r] = ErrorResponse(FileNotFound)]
            /\ pc' = [pc EXCEPT ![r] = "done"]
            /\ UNCHANGED <<fs, log>>
    /\ UNCHANGED <<envVars, req, text_input, result, audio_with_intro, metadata,
                   audio_url, error_message, mergeVars>>

\* Lines 288-317: probe both stores and answer.
HealthProbe(r) ==
    /\ pc[r] = "health_probe"
    /\ \E o1 \in ProbeOutcomes, o2 \in ProbeOutcomes :
          log' = AppendAll(r, <<Ev("s3_check_connection", "", check_connection(s3Client, o1)),
                                Ev("supabase_check_connection", "",
                                   check_connection(supaClient, o2))>>)
    /\ resp' = [resp EXCEPT ![r] = JSONResponse(200, "health", "healthy", NoUrl)]
    /\ pc' = [pc EXCEPT ![r] = "done"]
    /\ UNCHANGED <<envVars, fs, req, text_input, result, audio_with_intro, metadata,
                   audio_url, error_message, mergeVars>>

\* The response has been sent: the slot and the handler's locals are released.
Close(r) ==
    /\ pc[r] = "done"
    /\ pc' = [pc EXCEPT ![r] = "idle"]
    /\ req' = [req EXCEPT ![r] = NoReq]
    /\ text_input' = [text_input EXCEPT ![r] = None]
    /\ result' = [result EXCEPT ![r] = NoResult]
    /\ audio_with_intro' = [audio_with_intro EXCEPT ![r] = NoFile]
    /\ metadata' = [metadata EXCEPT ![r] = NoMeta]
    /\ audio_url' = [audio_url EXCEPT ![r] = NoUrl]
    /\ error_message' = [error_message EXCEPT ![r] = ""]
    /\ resp' = [resp EXCEPT ![r] = NoResp]
    /\ log' = [log EXCEPT ![r] = <<>>]
    /\ UNCHANGED <<envVars, fs, mergeVars>>

MergeIdle ==
    /\ heap = <<>>
    /\ mbase = ""
    /\ muser = ""
    /\ mres = ""
    /\ base0 = NoDoc
    /\ user0 = NoDoc

Init == EnvInit /\ ReqInit /\ MergeIdle

Next ==
    \E r \in Reqs :
        \/ Receive(r)
        \/ VerifyToken(r)
        \/ ResolveInput(r)
        \/ Generate(r)
        \/ Dispose(r)
        \/ AddIntro(r)
        \/ GetMetadata(r)
        \/ Upload(r)
        \/ UpdateCompletion(r)
        \/ Cleanup(r)
        \/ ReturnRaw(r)
        \/ Except(r)
        \/ HealthWrite(r)
        \/ HealthRemove(r)
        \/ HealthProbe(r)
        \/ Close(r)

Spec == Init /\ [][Next]_vars

\* ------------------------------------------------- merge_configs, driven

\* A process holds one base_config and calls merge_configs on it with one
\* user_config after another; the caller drops the previous user_config and
\* result before the next call.
MergeInit ==
    /\ \E b \in Docs :
          /\ heap = Alloc(<<>>, "base", b)
          /\ base0 = b
    /\ mbase = "base"
    /\ muser = ""
    /\ mres = ""
    /\ user0 = NoDoc

\* The objects of the base document as they are now.
BaseObjects == [a \in DOMAIN heap \cap {"base", TtsAddr("base")} |-> heap[a]]

MergeCall ==
    /\ \E u \in Docs :
          /\ heap' = merge_configs(Alloc(BaseObjects, "user", u), mbase, "user", "merged")
          /\ user0' = u
    /\ muser' = "user"
    /\ mres' = "merged"
    /\ UNCHANGED <<mbase, base0, envVars, fs, reqVars>>

EnvIdle ==
    /\ apiToken = None
    /\ introExists = FALSE
    /\ s3Client = FALSE
    /\ supaClient = FALSE
    /\ fs = <<>>

InitMerge == EnvIdle /\ ReqInit /\ MergeInit
NextMerge == MergeCall
SpecMerge == InitMerge /\ [][NextMerge]_vars

\* ------------------------------------------- the text of a request, driven

\* Entries of a text array in the requests that exercise the join.
MaxJoinLen == 3

JoinLists == UNION {[1..n -> Strs] : n \in 0..MaxJoinLen}

\* Authorised POST /generate requests whose text takes every form.
TextRequests ==
    [path : {"/generate"}, token : {Some("secret")}, podcast_id : {None, Some("p1")},
     text : {[kind |-> "absent", items |-> <<>>], [kind |-> "other", items |-> <<>>]}
            \cup {[kind |-> "str", items |-> <<s>>] : s \in Strs}
            \cup {[kind |-> "list", items |-> l] : l \in JoinLists}]

ReceiveText(r) ==
    /\ pc[r] = "idle"
    /\ Serial(r)
    /\ \E q \in TextRequests : req' = [req EXCEPT ![r] = q]
    /\ pc' = [pc EXCEPT ![r] = "auth"]
    /\ UNCHANGED <<envVars, fs, text_input, result, audio_with_intro, metadata,
                   audio_url, error_message, resp, log, mergeVars>>

\* A configured deployment: the secret is set, intro.wav is in place and both
\* stores have a client.
EnvConfigured ==
    /\ apiToken = Some("secret")
    /\ introExists = TRUE
    /\ s3Client = TRUE
    /\ supaClient = TRUE
    /\ fs = <<>>

InitText == EnvConfigured /\ ReqInit /\ MergeIdle

NextText ==
    \E r \in Reqs :
        \/ ReceiveText(r)
        \/ VerifyToken(r)
        \/ ResolveInput(r)
        \/ Generate(r)
        \/ Dispose(r)
        \/ AddIntro(r)
        \/ GetMetadata(r)
        \/ Upload(r)
        \/ UpdateCompletion(r)
        \/ Cleanup(r)
        \/ ReturnRaw(r)
        \/ Except(r)
        \/ Close(r)

SpecText == InitText /\ [][NextText]_vars

\* ------------------------------------------------ requests handled at once

\* Several workers serve the application over the one TEMP_DIR (uvicorn or
\* gunicorn started with more than one worker process, or a threaded
\* dispatcher).  Each worker runs its handler's statements in order; the
\* statements of different workers interleave.  A slot is a worker.

\* Authorised requests to the two handlers that use the temp directory.
ConcRequests ==
    [path : {"/generate"}, token : {Some("secret")}, podcast_id : {None, Some("p1")},
     text : {NoText}]
    \cup [path : {"/health"}, token : {None}, podcast_id : {None}, text : {NoText}]

\* A request arrives at a worker that is free, whatever the others are doing.
ReceiveConc(r) ==
    /\ pc[r] = "idle"
    /\ \E q \in ConcRequests : req' = [req EXCEPT ![r] = q]
    /\ pc' = [pc EXCEPT ![r] = "auth"]
    /\ UNCHANGED <<envVars, fs, text_input, result, audio_with_intro, metadata,
                   audio_url, error_message, resp, log, mergeVars>>

InitConc == EnvConfigured /\ ReqInit /\ MergeIdle

NextConc ==
    \E r \in Reqs :
        \/ ReceiveConc(r)
        \/ VerifyToken(r)
        \/ ResolveInput(r)
        \/ Generate(r)
        \/ Dispose(r)
        \/ AddIntro(r)
        \/ GetMetadata(r)
        \/ Upload(r)
        \/ UpdateCompletion(r)
        \/ Cleanup(r)
        \/ ReturnRaw(r)
        \/ Except(r)
        \/ HealthWrite(r)
        \/ HealthRemove(r)
        \/ HealthProbe(r)
        \/ Close(r)

SpecConc == InitConc /\ [][NextConc]_vars

\* ------------------------------------------------ os.remove that can fail

\* os.remove of a file that exists raises OSError when the file system
\* refuses (permissions, a read-only or failing volume, a file in use).
RemoveError == "[Errno 13] Permission denied"

\* Lines 410-417: the combined file has been exported, os.remove of the
\* input raises, the except clause returns the input path.
AddIntroRemoveFails(r) ==
    /\ pc[r] = "intro"
    /\ introExists
    /\ result[r].path \in DOMAIN fs
    /\ HasFresh(fs)
    /\ fs' = Create(fs, Fresh(fs), Combined(fs[result[r].path]))
    /\ audio_with_intro' = [audio_with_intro EXCEPT ![r] = result[r].path]
    /\ log' = AppendAll(r,
          <<Ev("addIntroToAudio", result[r].path,
               [path |-> result[r].path, caught |-> TRUE, intact |-> TRUE]),
            Ev("create", Fresh(fs), "addIntroToAudio")>>)
    /\ pc' = [pc EXCEPT ![r] = "metadata"]
    /\ UNCHANGED <<envVars, req, text_input, result, metadata, audio_url,
                   error_message, resp, mergeVars>>

\* Lines 188 and 232: os.remove(audio_with_intro) raises; the exception is
\* caught at line 254.
CleanupFails(r) ==
    /\ pc[r] = "cleanup"
    /\ audio_with_intro[r] \in DOMAIN fs
    /\ Raise(r, RemoveError)
    /\ UNCHANGED <<envVars, fs, req, text_input, result, audio_with_intro, metadata,
                   audio_url, resp, log, mergeVars>>

InitFault == Init

NextFault ==
    \/ Next
    \/ \E r \in Reqs :
          \/ AddIntroRemoveFails(r)
          \/ CleanupFails(r)

SpecFault == InitFault /\ [][NextFault]_vars

\* ------------------------------------------------------- reading the log

\* The positions of a request's log entries of one operation.
Calls(r, op) == {i \in DOMAIN log[r] : log[r][i].op = op}
\* The files the request created, and how often it removed the file n.
CreatedBy(r) == {log[r][i].arg : i \in Calls(r, "create")}
Removals(r, n) == Cardinality({i \in Calls(r, "remove") : log[r][i].arg = n})

\* The request has been answered.
Done(r) == pc[r] = "done"
\* The request was a /generate request that passed the middleware.
Authorized(r) ==
    req[r].path = "/generate"
    /\ verify_token(req[r].path, req[r].token, apiToken) = "pass"
\* The request's token is missing, empty or not the configured secret.
BadToken(r) == ~Truthy(req[r].token) \/ req[r].token # apiToken

\* ------------------------------------------------------------------ claims

\* C1: for every /generate request that passed auth, once it is answered
\* (on whatever exit path), every temp file created for it, the generated
\* artifact and the file addIntroToAudio created, has been deleted exactly
\* once and is no longer in the temp directory.
C1_TempFilesDeletedOnce ==
    \A r \in Reqs :
        (Done(r) /\ Authorized(r)) =>
            \A n \in CreatedBy(r) : n \notin DOMAIN fs /\ Removals(r, n) = 1

\* C2: a request to a path other than /health whose token is missing, empty
\* or different from the configured secret is answered 401, and it has
\* called no collaborator, touched no file and set nothing in the handler.
C2_UnauthorizedNoEffect ==
    \A r \in Reqs :
        (Done(r) /\ req[r].path # "/health" /\ BadToken(r)) =>
            /\ resp[r].status = 401
            /\ resp[r].detail = "Invalid or missing access token"
            /\ log[r] = <<>>
            /\ result[r] = NoResult
            /\ text_input[r] = None

C2_Witness ==
    \E r \in Reqs :
        /\ Done(r)
        /\ req[r].path = "/generate"
        /\ req[r].token = Some("bad")
        /\ apiToken = Some("secret")
        /\ HasPodcastId(req[r])
        /\ resp[r].status = 401

\* The operations of the podcast_id branch: intro, object store, status store.
StorageOps ==
    {"addIntroToAudio", "getAudioMetadata", "upload_file",
     "update_podcast_completion", "update_podcast_status"}
UsedStorage(r) == \E i \in DOMAIN log[r] : log[r][i].op \in StorageOps

\* The file the generation library returned to the request: its name and bytes.
Generated(r) == log[r][CHOOSE i \in Calls(r, "generate_podcast") : TRUE].out

\* C3: a /generate request answered 200 gets, with a (non-empty) podcast_id,
\* the JSON {audio_url} and no bytes; without one, the bytes of the
\* generated file as the generator wrote it, Content-Type audio/mpeg,
\* Content-Length the number of bytes read, and then neither the intro step
\* nor the object store nor the status store was used.
C3_DispositionBranching ==
    \A r \in Reqs :
        (Done(r) /\ req[r].path = "/generate" /\ resp[r].status = 200) =>
            IF Truthy(req[r].podcast_id)
            THEN /\ resp[r].kind = "audio_url"
                 /\ resp[r].data = <<>>
                 /\ resp[r].url = audio_url[r]
            ELSE /\ resp[r].kind = "bytes"
                 /\ resp[r].ctype = "audio/mpeg"
                 /\ resp[r].data = Generated(r).data
                 /\ \E i \in Calls(r, "read") :
                       /\ log[r][i].arg = Generated(r).path
                       /\ resp[r].data = log[r][i].out
                       /\ resp[r].clen = ToString(Len(log[r][i].out))
                 /\ ~UsedStorage(r)

C3_Witness ==
    \E r \in Reqs :
        /\ Done(r) /\ resp[r].status = 200 /\ req[r].path = "/generate"
        /\ req[r].podcast_id \in {None, Some("")}
        /\ resp[r].kind = "bytes" /\ resp[r].clen = "2"

\* The last entry of the request's log of one operation (the request has one).
Last(r, op) ==
    log[r][CHOOSE i \in Calls(r, op) : \A j \in Calls(r, op) : j <= i]

C5_FailedAlways500 ==
    [][\A r \in Reqs :
          pc[r] = "except" =>
            /\ Calls(r, "update_podcast_status") = {}
            /\ pc'[r] # "except" =>
                 /\ pc'[r] = "done"
                 /\ resp'[r].status = 500
                 /\ resp'[r].kind = "detail"
                 /\ resp'[r].detail = error_message[r]
                 /\ IF Truthy(req[r].podcast_id)
                    THEN /\ Len(log'[r]) = Len(log[r]) + 1
                         /\ SubSeq(log'[r], 1, Len(log[r])) = log[r]
                         /\ log'[r][Len(log'[r])].op = "update_podcast_status"
                         /\ log'[r][Len(log'[r])].arg =
                               [podcast_id |-> req[r].podcast_id[1], status |-> "failed",
                                failed_reason |-> error_message[r]]
                    ELSE log'[r] = log[r]]_vars

C5_Witness ==
    \E r \in Reqs :
        /\ Done(r)
        /\ resp[r].status = 500
        /\ resp[r].detail = GenerationError
        /\ Calls(r, "update_podcast_status") # {}
        /\ Last(r, "update_podcast_status").out = "raised"
        /\ supaClient

\* C6: when the upload of a request with podcast_id raises (the client was
\* never initialised, or the transfer failed), the request is answered 500
\* with the upload's message, one failure report was made for that
\* podcast_id, and no completion update was sent.
C6_UploadFailurePropagates ==
    \A r \in Reqs :
        (Done(r) /\ Calls(r, "upload_file") # {} /\ Last(r, "upload_file").out.raised) =>
            /\ resp[r].status = 500
            /\ resp[r].detail \in {S3NotInitialized, S3UploadFailed}
            /\ ~s3Client => resp[r].detail = S3NotInitialized
            /\ Cardinality(Calls(r, "update_podcast_status")) = 1
            /\ Last(r, "update_podcast_status").arg =
                  [podcast_id |-> req[r].podcast_id[1], status |-> "failed",
                   failed_reason |-> resp[r].detail]
            /\ Calls(r, "update_podcast_completion") = {}

C6_Witness ==
    \E r \in Reqs :
        /\ Done(r)
        /\ ~s3Client
        /\ Calls(r, "upload_file") # {}
        /\ Last(r, "upload_file").out.raised
        /\ resp[r].status = 500

\* A step of the post-processing failed and was caught.
IntroCaught(r) ==
    Calls(r, "addIntroToAudio") # {} /\ Last(r, "addIntroToAudio").out.caught
MetadataFailed(r) ==
    Calls(r, "getAudioMetadata") # {} /\ Last(r, "getAudioMetadata").arg.failed

TtsOf(doc) == IF doc.tts = <<>> THEN <<>> ELSE doc.tts[1]

\* C8: for every call merge_configs(B, O), the text_to_speech sub-document
\* of the result is B's (empty if B has none) with the entries of O's
\* overlaid key by key.  B is the base document as it is when the call is
\* made.
C8_TtsOverlaid ==
    [][mres' = "merged" =>
          TtsOf(Deep(heap', mres')) = Update(TtsOf(Deep(heap, mbase)), TtsOf(user0'))]_vars

\* C9: for every top-level key other than text_to_speech the result holds
\* O's value if O has the key with a value other than None, else B's value,
\* and lacks the key if B lacks it; the text_to_speech entry of the result
\* is B's own (the same object), or missing as in B, never O's.
C9_TopLevelOverride ==
    mres = "merged" =>
        /\ \A k \in TopKeys :
              IF k \in DOMAIN user0.top /\ user0.top[k] # PyNone
              THEN k \in DOMAIN heap[mres] /\ heap[mres][k] = user0.top[k]
              ELSE IF k \in DOMAIN base0.top
                   THEN k \in DOMAIN heap[mres] /\ heap[mres][k] = base0.top[k]
                   ELSE k \notin DOMAIN heap[mres]
        /\ DOMAIN heap[mres] \subseteq TopKeys \cup {TTS}
        /\ IF base0.tts # <<>>
           THEN TTS \in DOMAIN heap[mres] /\ heap[mres][TTS] = Ref(TtsAddr(mbase))
           ELSE TTS \notin DOMAIN heap[mres]

C9_Witness ==
    /\ mres = "merged"
    /\ base0.top = [k \in TopKeys |-> Scalar("x")]
    /\ user0.top = [k \in TopKeys |-> PyNone]
    /\ user0.tts # <<>>
    /\ \A k \in TopKeys : heap[mres][k] = Scalar("x")

\* C10: merge_configs changes neither of its arguments: after a call the
\* base document, its text_to_speech sub-document included, is what it was
\* before any call, and the override document is what was passed.
C10_MergeIsPure ==
    mres = "merged" =>
        /\ Deep(heap, mbase) = base0
        /\ Deep(heap, muser) = user0

\* The entries of a text array that are not the empty string, in order.
Kept(items) == SelectSeq(items, LAMBDA s : s # <<>>)

RECURSIVE Spliced(_, _)
\* The first n kept entries, a separator before each one but the first.
Spliced(kept, n) ==
    IF n = 0 THEN <<>>
    ELSE IF n = 1 THEN kept[1]
    ELSE Spliced(kept, n - 1) \o Separator \o kept[n]

\* C11: the text handed to the generator is, for a text array, its non-empty
\* entries in order with the separator between consecutive kept entries and
\* nowhere else; for a string, the string itself; and a request whose text
\* is present but neither a string nor an array is answered 500 without the
\* generator having been called.
C11_TextJoined ==
    \A r \in Reqs :
        /\ \A i \in Calls(r, "generate_podcast") :
              /\ req[r].text.kind \in {"absent", "str", "list"}
              /\ req[r].text.kind = "absent" => log[r][i].arg = None
              /\ req[r].text.kind = "str" => log[r][i].arg = Some(req[r].text.items[1])
              /\ req[r].text.kind = "list" =>
                    /\ log[r][i].arg =
                          Some(Spliced(Kept(req[r].text.items),
                                       Len(Kept(req[r].text.items))))
                    /\ Len(SelectSeq(log[r][i].arg[1], LAMBDA c : c \notin Chars)) =
                          Len(Separator) *
                              (IF Kept(req[r].text.items) = <<>> THEN 0
                               ELSE Len(Kept(req[r].text.items)) - 1)
        /\ (Done(r) /\ Authorized(r) /\ req[r].text.kind = "other") =>
              /\ resp[r].status = 500
              /\ resp[r].detail = TextError
              /\ Calls(r, "generate_podcast") = {}

C11_Witness ==
    \E r \in Reqs :
        /\ req[r].text = [kind |-> "list", items |-> << <<"a">>, <<>>, <<"b">> >>]
        /\ Calls(r, "generate_podcast") # {}
        /\ Last(r, "generate_podcast").arg = Some(<<"a">> \o Separator \o <<"b">>)

\* C12: when intro.wav is absent, the addIntroToAudio step returns the path
\* it was given, leaves the temp directory exactly as it was (nothing
\* deleted, nothing created) and raises nothing.
C12_NoIntroNoEffect ==
    [][\A r \in Reqs :
          (pc[r] = "intro" /\ ~introExists /\ pc'[r] # "intro") =>
            /\ pc'[r] = "metadata"
            /\ audio_with_intro'[r] = result[r].path
            /\ fs' = fs
            /\ Calls(r, "create")' = Calls(r, "create")
            /\ Calls(r, "remove")' = Calls(r, "remove")
            /\ log'[r][Len(log'[r])].op = "addIntroToAudio"
            /\ ~log'[r][Len(log'[r])].out.caught]_vars

C12_Witness ==
    \E r \in Reqs :
        /\ ~introExists
        /\ pc[r] = "metadata"
        /\ Calls(r, "addIntroToAudio") # {}
        /\ result[r].path \in DOMAIN fs
        /\ result[r].path \in CreatedBy(r)
        /\ audio_with_intro[r] = result[r].path

\* C13 as stated: a 'failed' report is sent only for a request that supplied
\* a podcast_id and failed while generating or disposing, that is after the
\* generator had been called; a request that fails on its input sends none.
C13_ReportOnlyAfterGeneration ==
    \A r \in Reqs :
        \A i \in Calls(r, "update_podcast_status") :
            /\ Truthy(req[r].podcast_id)
            /\ log[r][i].arg.status = "failed"
            /\ Calls(r, "generate_podcast") # {}

\* C13, amended: a 'failed' report is sent only for a request that supplied
\* a (non-empty) podcast_id and failed anywhere inside the handler's try
\* block, input validation included: a request with a podcast_id whose text
\* is of an invalid type sends exactly one report, carrying the validation
\* message, and is answered 500; a request without podcast_id sends none.
C13_ReportOnHandlerFailure ==
    \A r \in Reqs :
        /\ \A i \in Calls(r, "update_podcast_status") :
              /\ Truthy(req[r].podcast_id)
              /\ Authorized(r)
              /\ Done(r)
              /\ resp[r].status = 500
              /\ log[r][i].arg = [podcast_id |-> req[r].podcast_id[1], status |-> "failed",
                                  failed_reason |-> resp[r].detail]
        /\ (Done(r) /\ Authorized(r) /\ req[r].text.kind = "other") =>
              /\ resp[r].status = 500
              /\ resp[r].detail = TextError
              /\ Cardinality(Calls(r, "update_podcast_status")) =
                    IF Truthy(req[r].podcast_id) THEN 1 ELSE 0
        /\ ~Truthy(req[r].podcast_id) => Calls(r, "update_podcast_status") = {}

C13_Witness ==
    \E r \in Reqs :
        /\ Done(r)
        /\ req[r].text.kind = "other"
        /\ req[r].podcast_id = Some("p2")
        /\ Calls(r, "generate_podcast") = {}
        /\ Calls(r, "update_podcast_status") # {}
        /\ Last(r, "update_podcast_status").arg.failed_reason = TextError

\* The steps of the podcast_id path, in the order the claim gives them; the
\* last is the handler's own os.remove.
PodcastSteps ==
    <<"generate_podcast", "addIntroToAudio", "getAudioMetadata", "upload_file",
      "update_podcast_completion", "remove">>

\* The request's log without the failure report and without the files the
\* generator and addIntroToAudio created or removed inside their calls.
Steps(r) ==
    SelectSeq(log[r],
              LAMBDA e : \/ e.op \in {"generate_podcast", "addIntroToAudio",
                                      "getAudioMetadata", "upload_file",
                                      "update_podcast_completion", "read"}
                         \/ (e.op = "remove" /\ e.out = "handler"))

\* C14: at every moment of a request with podcast_id the steps taken so far
\* are an initial part of: generation, addIntroToAudio, getAudioMetadata on
\* the path addIntroToAudio returned, upload of that path keyed by the
\* podcast_id, completion update carrying the URL the upload returned and
\* that metadata, removal of the uploaded file; the completion update comes
\* only after an upload that did not raise, the removal only after the
\* upload, and the 200 {audio_url} answer only after all six.
C14_PodcastPathOrder ==
    \A r \in Reqs :
        (Authorized(r) /\ Truthy(req[r].podcast_id)) =>
            LET s == Steps(r)
            IN  /\ Len(s) <= Len(PodcastSteps)
                /\ \A i \in DOMAIN s : s[i].op = PodcastSteps[i]
                /\ Len(s) >= 2 =>
                      /\ ~s[1].out.raised
                      /\ s[2].arg = s[1].out.path
                /\ Len(s) >= 3 => s[3].arg.path = s[2].out.path
                /\ Len(s) >= 4 =>
                      s[4].arg = [file_path |-> s[2].out.path,
                                  audio_id |-> req[r].podcast_id[1]]
                /\ Len(s) >= 5 =>
                      /\ ~s[4].out.raised
                      /\ s[5].arg = [podcast_id |-> req[r].podcast_id[1],
                                     audio_url |-> s[4].out.url,
                                     audio_length |-> s[3].out.audio_length,
                                     audio_content_type |-> s[3].out.audio_content_type,
                                     audio_file_size |-> s[3].out.audio_file_size]
                /\ Len(s) >= 6 => s[6].arg = s[4].arg.file_path
                /\ resp[r].status = 200 =>
                      /\ Len(s) = Len(PodcastSteps)
                      /\ resp[r].kind = "audio_url"
                      /\ resp[r].url = s[4].out.url
                /\ Len(s) = Len(PodcastSteps) => resp[r].status = 200

C14_Witness ==
    \E r \in Reqs :
        /\ Done(r)
        /\ Truthy(req[r].podcast_id)
        /\ resp[r].status = 200
        /\ Len(Steps(r)) = Len(PodcastSteps)
        /\ Steps(r)[2].out.path # Steps(r)[2].arg
        /\ Steps(r)[3].out.audio_length = "2"
        /\ Steps(r)[5].out = "True"

\* The request is being handled: it has arrived and is not yet answered.
InFlight(r) == pc[r] \notin {"idle", "done"}
\* The request created the temp file n and has not removed it.
Holds(r, n) == n \in CreatedBy(r) /\ Removals(r, n) = 0

\* C15: whatever the interleaving of the requests being handled, no two
\* requests in flight hold a temp file of the same name, and no request is
\* answered with the error of a missing file after having created a file
\* (another request removed it).
C15_TempFilesPrivate ==
    \A r \in Reqs :
        /\ \A q \in Reqs \ {r} :
              (InFlight(r) /\ InFlight(q)) =>
                  \A n \in CreatedBy(r) : ~(Holds(r, n) /\ Holds(q, n))
        /\ (Done(r) /\ CreatedBy(r) # {}) => resp[r].detail # FileNotFound

\* C16: every addIntroToAudio step taken with intro.wav in place on an input
\* file that exists returns the path of an existing file and leaves exactly
\* one file of the pair: after a caught failure the input, the temp
\* directory being as it was before the call; on success the combined file,
\* the input being gone.
C16_IntroLeavesOneFile ==
    [][\A r \in Reqs :
          (pc[r] = "intro" /\ pc'[r] # "intro" /\ introExists
                           /\ result[r].path \in DOMAIN fs) =>
            LET given == result[r].path
                returned == audio_with_intro'[r]
            IN  /\ returned \in DOMAIN fs'
                /\ IF log'[r][Len(log[r]) + 1].out.caught
                   THEN /\ returned = given
                        /\ fs' = fs
                   ELSE /\ returned # given
                        /\ DOMAIN fs' = (DOMAIN fs \ {given}) \cup {returned}
                        /\ fs'[returned] = Combined(fs[given])]_vars

\* C17: a request sends at most one of the two status updates: once its
\* completion update has been sent it sends no 'failed' update and is not
\* answered 500 (nor is it on its way there), whatever os.remove does
\* afterwards; so a request that sent 'failed' never sent 'completed'.
C17_OneStatusUpdate ==
    \A r \in Reqs :
        Calls(r, "update_podcast_completion") # {} =>
            /\ Calls(r, "update_podcast_status") = {}
            /\ resp[r].status # 500
            /\ pc[r] # "except"

====
